---------------------------- MODULE Spec2Model ----------------------------
(***************************************************************************)
(* Model of the pathway-service of the climate-disaster repository:        *)
(*   - app.py: run_pathway_processor, the background refresh loop;         *)
(*   - api_server.py: the module-level caches, update_cache and the        *)
(*     handlers that read the caches or the citizen reports;               *)
(*   - main.py: WeatherDataFetcher.fetch_weather, DisasterRiskAnalyzer;    *)
(*   - advanced_features.py: CitizenReportAggregator,                      *)
(*     EvacuationRouteOptimizer, AlertGenerator.                           *)
(*                                                                         *)
(* Python floats are modelled exactly as scaled integers: a confidence is  *)
(* kept in thousandths (0.95 is 950), a coordinate in hundredths of a      *)
(* degree, a variance as the fraction num/den. A risk score, whose         *)
(* rounding decides comparisons, is kept as the double it is.              *)
(***************************************************************************)
EXTENDS Integers, Sequences, FiniteSets

VARIABLES
    \* ---- app.py / api_server.py: the refresh thread and the caches
    weather_cache,          \* api_server.py:45, the global list reference
    risk_predictions_cache, \* api_server.py:46, the global list reference
    rpc,                    \* position of run_pathway_processor in its loop
    weather_data,           \* app.py:40, local of run_pathway_processor
    risk_predictions,       \* app.py:43, local of run_pathway_processor
    clock,                  \* datetime.now(), one tick per sleep of the loop
    after_failure,          \* an exception was handled since the last sleep(300)
    \* ---- api_server.py: one get_stats request
    spc,                    \* position of the get_stats handler
    stats_seen,             \* the lists the handler has read so far
    \* ---- api_server.py: the report handlers
    citizen_reports,        \* api_server.py:47, the global list of reports
    response,               \* the body of the last HTTP response sent
    \* ---- advanced_features.py: one call of verify_reports
    reports,                \* the argument of the call
    verification,           \* the dict the call returned
    \* ---- main.py, advanced_features.py: one call of a pure engine function
    args,                   \* the arguments of the call
    returned                \* what the call returned

cacheVars == <<weather_cache, risk_predictions_cache, rpc, weather_data,
               risk_predictions, clock, after_failure>>
statsVars == <<spc, stats_seen>>
reportVars == <<citizen_reports, response>>
verifyVars == <<reports, verification>>
engineVars == <<args, returned>>
vars == <<weather_cache, risk_predictions_cache, rpc, weather_data,
          risk_predictions, clock, after_failure, spc, stats_seen,
          citizen_reports, response, reports, verification,
          args, returned>>

(***************************************************************************)
(* Bounds                                                                  *)
(***************************************************************************)
\* number of monitored locations the model keeps (the program monitors 10)
NumLocations == 2
\* the clock shows 1..MaxClock and wraps around
MaxClock == 3

(***************************************************************************)
(* main.py: PathwayDisasterProcessor.monitored_locations and fetch_weather *)
(***************************************************************************)
monitored_locations == [i \in 1..NumLocations |-> i]

\* fetch_weather: one observation per location whose request succeeded; a
\* failed request is logged and skipped (main.py:116-117), never re-raised.
RECURSIVE fetch_weather(_, _, _)
fetch_weather(locations, succeeded, now) ==
    IF locations = <<>> THEN <<>>
    ELSE LET loc == Head(locations)
             rest == fetch_weather(Tail(locations), succeeded, now)
         IN  IF loc \in succeeded
             THEN <<[location |-> loc, timestamp |-> now]>> \o rest
             ELSE rest

\* app.py:43-46: one prediction per observation, in order; analyze_weather
\* copies location and timestamp of the observation (main.py:221-225).
analyze_all(weather) ==
    [i \in 1..Len(weather) |->
        [location |-> weather[i].location, timestamp |-> weather[i].timestamp]]

NextClock(c) == (c % MaxClock) + 1

(***************************************************************************)
(* app.py: run_pathway_processor, one action per step of the loop body     *)
(***************************************************************************)
\* app.py:40  weather_data = weather_fetcher.fetch_weather(...)
\* Every subset of the locations may answer; the call itself never raises.
FetchWeather ==
    /\ rpc = "fetch"
    /\ \E succeeded \in SUBSET (1..NumLocations) :
          weather_data' = fetch_weather(monitored_locations, succeeded, clock)
    /\ rpc' = "analyze"
    /\ UNCHANGED <<weather_cache, risk_predictions_cache, risk_predictions,
                   clock, after_failure, spc, stats_seen,
                   citizen_reports, response, reports, verification,
          args, returned>>

\* app.py:43-46  the analysis loop runs to its end
AnalyzeRisks ==
    /\ rpc = "analyze"
    /\ risk_predictions' = analyze_all(weather_data)
    /\ rpc' = "update_weather"
    /\ UNCHANGED <<weather_cache, risk_predictions_cache, weather_data,
                   clock, after_failure, spc, stats_seen,
                   citizen_reports, response, reports, verification,
          args, returned>>

\* app.py:45  analyze_weather raises on an observation (a malformed reading);
\* control goes to the except clause before update_cache is reached.
AnalyzeRaises ==
    /\ rpc = "analyze"
    /\ weather_data # <<>>
    /\ rpc' = "except"
    /\ UNCHANGED <<weather_cache, risk_predictions_cache, weather_data,
                   risk_predictions, clock, after_failure, spc, stats_seen,
                   citizen_reports, response, reports, verification,
          args, returned>>

\* api_server.py:624  weather_cache = weather_data
UpdateCacheWeather ==
    /\ rpc = "update_weather"
    /\ weather_cache' = weather_data
    /\ rpc' = "update_risk"
    /\ UNCHANGED <<risk_predictions_cache, weather_data, risk_predictions,
                   clock, after_failure, spc, stats_seen,
                   citizen_reports, response, reports, verification,
          args, returned>>

\* api_server.py:625  risk_predictions_cache = risk_data
UpdateCacheRisk ==
    /\ rpc = "update_risk"
    /\ risk_predictions_cache' = risk_predictions
    /\ rpc' = "sleep"
    /\ UNCHANGED <<weather_cache, weather_data, risk_predictions,
                   clock, after_failure, spc, stats_seen,
                   citizen_reports, response, reports, verification,
          args, returned>>

\* app.py:51-64  log, time.sleep(300), then the next iteration. The locals are
\* rebound before they are read again, so they are reset here.
SleepCycle ==
    /\ rpc = "sleep"
    /\ rpc' = "fetch"
    /\ clock' = NextClock(clock)
    /\ after_failure' = FALSE
    /\ weather_data' = <<>>
    /\ risk_predictions' = <<>>
    /\ UNCHANGED <<weather_cache, risk_predictions_cache, spc, stats_seen,
                   citizen_reports, response, reports, verification,
          args, returned>>

\* a bug: the except clause ends the loop (the thread exits)
except_handler_exits == "exited"

\* app.py:66-68  where the except clause leaves the loop: back at its top
except_handler_next == "fetch"

\* app.py:66-68  except Exception: log, time.sleep(60)
HandleException ==
    /\ rpc = "except"
    /\ rpc' = except_handler_next
    /\ clock' = NextClock(clock)
    /\ after_failure' = TRUE
    /\ weather_data' = <<>>
    /\ risk_predictions' = <<>>
    /\ UNCHANGED <<weather_cache, risk_predictions_cache, spc, stats_seen,
                   citizen_reports, response, reports, verification,
          args, returned>>

run_pathway_processor ==
    \/ FetchWeather
    \/ AnalyzeRisks
    \/ AnalyzeRaises
    \/ UpdateCacheWeather
    \/ UpdateCacheRisk
    \/ SleepCycle
    \/ HandleException

(***************************************************************************)
(* api_server.py: get_stats, one action per read of a global               *)
(***************************************************************************)
\* the handler has read nothing yet
NoStats == [high_risk |-> <<>>, moderate_risk |-> <<>>, weather |-> <<>>]

\* api_server.py:596  high_risk_count reads risk_predictions_cache
GetStatsHighRisk ==
    /\ spc = "idle"
    /\ stats_seen' = [NoStats EXCEPT !.high_risk = risk_predictions_cache]
    /\ spc' = "moderate_risk"
    /\ UNCHANGED <<cacheVars, reportVars, verifyVars, engineVars>>

\* api_server.py:597  moderate_risk_count reads risk_predictions_cache again
GetStatsModerateRisk ==
    /\ spc = "moderate_risk"
    /\ stats_seen' = [stats_seen EXCEPT !.moderate_risk = risk_predictions_cache]
    /\ spc' = "weather"
    /\ UNCHANGED <<cacheVars, reportVars, verifyVars, engineVars>>

\* api_server.py:607  monitored_locations reads weather_cache
GetStatsWeather ==
    /\ spc = "weather"
    /\ stats_seen' = [stats_seen EXCEPT !.weather = weather_cache]
    /\ spc' = "respond"
    /\ UNCHANGED <<cacheVars, reportVars, verifyVars, engineVars>>

\* api_server.py:604-618  the response is returned
GetStatsRespond ==
    /\ spc = "respond"
    /\ stats_seen' = NoStats
    /\ spc' = "idle"
    /\ UNCHANGED <<cacheVars, reportVars, verifyVars, engineVars>>

get_stats ==
    \/ GetStatsHighRisk
    \/ GetStatsModerateRisk
    \/ GetStatsWeather
    \/ GetStatsRespond

(***************************************************************************)
(* advanced_features.py: CitizenReportAggregator                           *)
(***************************************************************************)
\* dict.get(key, default)
get(d, key, default) == IF key \in DOMAIN d THEN d[key] ELSE default

\* int(a / b) for b > 0: Python's int() truncates toward zero
int_div(a, b) == IF a >= 0 THEN a \div b ELSE -((-a) \div b)

min(a, b) == IF a <= b THEN a ELSE b

\* the element of a one-element set. TLC evaluates an argument of an operator
\* every time the body uses it; a value bound in {e(v) : v \in {value}} is
\* evaluated once, as a local variable of the code is.
the(S) == CHOOSE v \in S : TRUE

RECURSIVE sum(_)
sum(xs) == IF xs = <<>> THEN 0 ELSE Head(xs) + sum(Tail(xs))

\* advanced_features.py:37-42  grid_cell: int() truncates the quotient
\* toward zero. Coordinates and grid_size are in hundredths of a degree.
grid_cell_sized(lat, lon, grid_size) ==
    <<int_div(lat, grid_size), int_div(lon, grid_size)>>

\* grid_cell with the default grid_size 0.1; coordinates are in hundredths of
\* a degree, so lat / 0.1 is lat / 10 here. The f-string "lat_cell,lon_cell"
\* is kept as the pair. Python divides floats, and for some coordinates the
\* float quotient falls just below the exact one (0.3 / 0.1 is
\* 2.9999999999999996, cell 2); the coordinates posted below are not among
\* them.
grid_cell(lat, lon) == grid_cell_sized(lat, lon, 10)

\* r.get("severity", 5) for every report of the list
severities(rs) == [i \in 1..Len(rs) |-> get(rs[i], "severity", 5)]

\* advanced_features.py:56  avg_severity, as the fraction num/den
avg_severity(rs) == [num |-> sum(severities(rs)), den |-> Len(rs)]

\* advanced_features.py:59  severity_variance = sum((s - avg)^2) / n. With
\* avg = total/n each term (s - avg)^2 is (n*s - total)^2 / n^2, so the
\* variance is the fraction sum((n*s - total)^2) / n^3.
severity_variance(rs) ==
    LET sv == severities(rs)
        n == avg_severity(rs).den
        total == avg_severity(rs).num
    IN  [num |-> sum([i \in 1..n |-> (n * sv[i] - total) * (n * sv[i] - total)]),
         den |-> n * n * n]

\* advanced_features.py:65  severity_variance > 9
high_variance(rs) ==
    LET v == severity_variance(rs) IN v.num > 9 * v.den

\* a bug: the confidence is not capped at 0.95
confidence_uncapped(rs) ==
    LET base == 300 + Len(rs) * 150
    IN  IF high_variance(rs) THEN (base * 7) \div 10 ELSE base

\* a bug: disagreement costs 0.6 of the confidence instead of 0.7
confidence_harsh_penalty(rs) ==
    LET base == min(300 + Len(rs) * 150, 950)
    IN  IF high_variance(rs) THEN (base * 6) \div 10 ELSE base

\* advanced_features.py:62-66  confidence in thousandths: 0.3 + n * 0.15
\* capped at 0.95, times 0.7 when the variance is high
confidence_of(rs) ==
    LET base == min(300 + Len(rs) * 150, 950)
    IN  IF high_variance(rs) THEN (base * 7) \div 10 ELSE base

\* a bug: only the empty list takes the early return
few_reports_only_empty(rs) == Len(rs) < 1

\* advanced_features.py:47  len(reports) < 2
few_reports(rs) == Len(rs) < 2

\* a bug: the confidence is not consulted
is_verified_by_count(count, confidence) == count >= 3

\* advanced_features.py:69  len(reports) >= 3 and confidence > 0.6
is_verified(count, confidence) == count >= 3 /\ confidence > 600

\* advanced_features.py:44-74
verify_reports(rs) ==
    IF few_reports(rs)
    THEN [verified |-> FALSE,
          confidence |-> 300,
          report_count |-> Len(rs),
          consensus_severity |-> IF rs # <<>> THEN get(rs[1], "severity", 5) ELSE 5]
    ELSE [verified |-> is_verified(Len(rs), confidence_of(rs)),
          confidence |-> confidence_of(rs),
          report_count |-> Len(rs),
          consensus_severity |-> int_div(avg_severity(rs).num, avg_severity(rs).den),
          variance |-> severity_variance(rs)]

(***************************************************************************)
(* api_server.py: the report handlers                                      *)
(***************************************************************************)
\* number of reports the model lets citizen_reports hold
MaxStored == 3

\* what a client may post: coordinates in hundredths of a degree
PostLatitudes == {-5, 5, 15}
PostLongitudes == {5}
PostTypes == {"flood", "fire"}
PostSeverities == {1, 10}
PostBodies ==
    [latitude : PostLatitudes, longitude : PostLongitudes, report_type : PostTypes]
    \cup [latitude : PostLatitudes, longitude : PostLongitudes,
          report_type : PostTypes, severity : PostSeverities]

NoResponse == [kind |-> "none"]

\* the second of the first POST
FirstPost == 1700000000

\* the clock never runs backwards: a POST starts at the second the one
\* before it ended, or later
last_instant(rs) == IF rs = <<>> THEN FirstPost ELSE rs[Len(rs)].timestamp

\* api_server.py:410-432  POST /api/v1/reports. now1 and now2 are what the
\* two int(datetime.now().timestamp()) of lines 415 and 416 return.
PostReport ==
    /\ Len(citizen_reports) < MaxStored
    /\ \E data \in PostBodies, tick1 \in 0..1, tick2 \in 0..1 :
          LET now1 == last_instant(citizen_reports) + tick1
              now2 == now1 + tick2
          IN  citizen_reports' = Append(citizen_reports,
                  [report_id |-> <<"REP-", now1>>,
                   timestamp |-> now2,
                   latitude |-> data.latitude,
                   longitude |-> data.longitude,
                   report_type |-> data.report_type,
                   severity |-> get(data, "severity", 5)])
    /\ response' = [kind |-> "submitted"]
    /\ UNCHANGED <<cacheVars, statsVars, verifyVars, engineVars>>

\* api_server.py:448-456  the keys of grid_groups in insertion order
RECURSIVE grid_keys(_, _)
grid_keys(rs, seen) ==
    IF rs = <<>> THEN <<>>
    ELSE LET cell == grid_cell(Head(rs).latitude, Head(rs).longitude)
         IN  IF cell \in seen
             THEN grid_keys(Tail(rs), seen)
             ELSE <<cell>> \o grid_keys(Tail(rs), seen \cup {cell})

\* api_server.py:448-456  grid_groups[cell]
grid_group(rs, cell) ==
    SelectSeq(rs, LAMBDA r : grid_cell(r.latitude, r.longitude) = cell)

\* api_server.py:461  the groups handed to verify_reports
groups_verified(rs) ==
    LET keys == grid_keys(rs, {})
    IN  SelectSeq([i \in 1..Len(keys) |-> grid_group(rs, keys[i])],
                  LAMBDA g : Len(g) >= 2)

\* api_server.py:464  whether a verified group is listed
is_listed(v) == v.verified \/ v.report_count >= 3

\* api_server.py:466-479  the incident built for a listed group; the centroid
\* is kept as the fraction sum/count
incident(g) ==
    LET v == verify_reports(g)
    IN  [grid_cell |-> grid_cell(g[1].latitude, g[1].longitude),
         latitude |-> [num |-> sum([i \in 1..Len(g) |-> g[i].latitude]), den |-> Len(g)],
         longitude |-> [num |-> sum([i \in 1..Len(g) |-> g[i].longitude]), den |-> Len(g)],
         report_count |-> Len(g),
         verified |-> v.verified,
         confidence |-> v.confidence,
         severity |-> v.consensus_severity,
         reports |-> g]

\* api_server.py:459-479
verified_incidents(rs) ==
    LET listed == SelectSeq(groups_verified(rs), LAMBDA g : is_listed(verify_reports(g)))
    IN  [i \in 1..Len(listed) |-> incident(listed[i])]

\* api_server.py:443-485  GET /api/v1/reports/verified
get_verified_reports ==
    /\ response' = [kind |-> "verified",
                    count |-> Len(verified_incidents(citizen_reports)),
                    data |-> verified_incidents(citizen_reports)]
    /\ UNCHANGED <<cacheVars, statsVars, verifyVars, engineVars,
                   citizen_reports>>

NextReports == PostReport \/ get_verified_reports

(***************************************************************************)
(* One call of verify_reports on any list of reports                       *)
(***************************************************************************)
\* longest list of reports handed to verify_reports
MaxReports == 5

\* severities a report may carry (any JSON number is accepted); a report may
\* also carry none
CallSeverities == {-2, 1, 7, 9, 15}
CallReports ==
    {[report_type |-> "flood"]}
    \cup [report_type : {"flood"}, severity : CallSeverities]

SeqsUpTo(S, n) == UNION {[1..k -> S] : k \in 0..n}

NotCalled == [called |-> FALSE]

NoArgs == [fn |-> "none"]

NotReturned == [returned |-> FALSE]

CallVerifyReports ==
    /\ verification = NotCalled
    /\ verification' = verify_reports(reports)
    /\ UNCHANGED <<cacheVars, statsVars, reportVars, engineVars, reports>>

(***************************************************************************)
(* advanced_features.py: grid_cell called on its own                       *)
(***************************************************************************)
\* coordinates and grid sizes of the calls, in hundredths of a degree; for
\* all of them Python's float quotient lat / grid_size truncates to the same
\* integer as the exact quotient
GridLatitudes == -25..25
GridLongitudes == {-15, 5}
GridSizes == {10, 25}
GridCalls ==
    [fn : {"grid_cell"}, lat : GridLatitudes, lon : GridLongitudes,
     grid_size : GridSizes]

CallGridCell ==
    /\ args.fn = "grid_cell"
    /\ returned = NotReturned
    /\ returned' = [returned |-> TRUE,
                    value |-> grid_cell_sized(args.lat, args.lon,
                                              args.grid_size)]
    /\ UNCHANGED <<cacheVars, statsVars, reportVars, verifyVars, args>>

(***************************************************************************)
(* main.py: DisasterRiskAnalyzer                                           *)
(*                                                                         *)
(* A risk score is a Python float, an IEEE-754 double. The scores are      *)
(* accumulated with += and then compared with each other, so the rounding  *)
(* of each addition is kept: a double v >= 0 that is a multiple of 2^-56   *)
(* is the record [hi, lo] with v = (hi * 2^28 + lo) / 2^56 and             *)
(* 0 <= lo < 2^28. Every double from 0.0625 up is such a multiple.         *)
(***************************************************************************)
Limb == 2^28

\* the float literals 0.0, 0.1, ..., 1.0: the double nearest to k/10
tenths(k) ==
    LET literal == <<[hi |-> 26843545,  lo |-> 161061274],
                     [hi |-> 53687091,  lo |-> 53687092],
                     [hi |-> 80530636,  lo |-> 214748364],
                     [hi |-> 107374182, lo |-> 107374184],
                     [hi |-> 134217728, lo |-> 0],
                     [hi |-> 161061273, lo |-> 161061272],
                     [hi |-> 187904819, lo |-> 53687088],
                     [hi |-> 214748364, lo |-> 214748368],
                     [hi |-> 241591910, lo |-> 107374184],
                     [hi |-> 268435456, lo |-> 0]>>
    IN  IF k = 0 THEN [hi |-> 0, lo |-> 0] ELSE literal[k]

\* x < y on floats
float_lt(x, y) == x.hi < y.hi \/ (x.hi = y.hi /\ x.lo < y.lo)

\* the spacing of the doubles around a value, in units of 2^-56: a double
\* carries 53 significant bits
float_ulp(hi) ==
    IF hi >= Limb THEN 16
    ELSE IF hi >= Limb \div 2 THEN 8
    ELSE IF hi >= Limb \div 4 THEN 4
    ELSE IF hi >= Limb \div 8 THEN 2
    ELSE 1

\* the number (hi * 2^28 + lo) / 2^56 rounded to the nearest double, a tie
\* going to the double whose last significant bit is 0
float_round(hi, lo) ==
    LET q == float_ulp(hi)
        r == lo % q
        down == lo - r
        up_wins == 2 * r > q \/ (2 * r = q /\ (down \div q) % 2 = 1)
        rounded == IF up_wins THEN down + q ELSE down
    IN  IF rounded = Limb THEN [hi |-> hi + 1, lo |-> 0]
        ELSE [hi |-> hi, lo |-> rounded]

\* x + y on floats: the exact sum, rounded
float_add(x, y) ==
    the({float_round(a.hi + b.hi + ((a.lo + b.lo) \div Limb),
                     (a.lo + b.lo) % Limb) : a \in {x}, b \in {y}})

\* min(x, y) of Python on floats: x unless y is smaller
float_min(x, y) ==
    the({IF float_lt(b, a) THEN b ELSE a : a \in {x}, b \in {y}})

\* main.py:125-152
calculate_flood_risk(weather) ==
    LET risk0 == tenths(0)
        risk1 == IF weather.precipitation > 50 THEN float_add(risk0, tenths(5))
                 ELSE IF weather.precipitation > 20 THEN float_add(risk0, tenths(3))
                 ELSE IF weather.precipitation > 10 THEN float_add(risk0, tenths(1))
                 ELSE risk0
        risk2 == IF weather.pressure < 980 THEN float_add(risk1, tenths(3))
                 ELSE IF weather.pressure < 1000 THEN float_add(risk1, tenths(1))
                 ELSE risk1
        risk3 == IF weather.humidity > 90 THEN float_add(risk2, tenths(1))
                 ELSE risk2
        risk4 == IF weather.wind_speed > 20 THEN float_add(risk3, tenths(1))
                 ELSE risk3
    IN  float_min(risk4, tenths(10))

\* main.py:154-181
calculate_fire_risk(weather) ==
    LET risk0 == tenths(0)
        risk1 == IF weather.temperature > 35 THEN float_add(risk0, tenths(4))
                 ELSE IF weather.temperature > 30 THEN float_add(risk0, tenths(2))
                 ELSE risk0
        risk2 == IF weather.humidity < 20 THEN float_add(risk1, tenths(3))
                 ELSE IF weather.humidity < 30 THEN float_add(risk1, tenths(2))
                 ELSE risk1
        risk3 == IF weather.wind_speed > 25 THEN float_add(risk2, tenths(3))
                 ELSE IF weather.wind_speed > 15 THEN float_add(risk2, tenths(1))
                 ELSE risk2
        risk4 == IF weather.precipitation = 0 THEN float_add(risk3, tenths(1))
                 ELSE risk3
    IN  float_min(risk4, tenths(10))

\* main.py:183-206
calculate_hurricane_risk(weather) ==
    LET risk0 == tenths(0)
        risk1 == IF weather.pressure < 950 THEN float_add(risk0, tenths(6))
                 ELSE IF weather.pressure < 980 THEN float_add(risk0, tenths(4))
                 ELSE IF weather.pressure < 1000 THEN float_add(risk0, tenths(2))
                 ELSE risk0
        risk2 == IF weather.wind_speed > 33 THEN float_add(risk1, tenths(5))
                 ELSE IF weather.wind_speed > 25 THEN float_add(risk1, tenths(3))
                 ELSE risk1
        risk3 == IF weather.precipitation > 30 THEN float_add(risk2, tenths(2))
                 ELSE risk2
    IN  float_min(risk3, tenths(10))

\* max(items, key=lambda x: x[1]) of Python over the items from position i
\* on: the best item so far is replaced only by a strictly greater one, so of
\* several greatest items the first is returned.
RECURSIVE max_item(_, _, _)
max_item(items, best, i) ==
    IF i > Len(items) THEN best
    ELSE max_item(items,
                  IF float_lt(best[2], items[i][2]) THEN items[i] ELSE best,
                  i + 1)

\* a bug: the band borders are read as "up to and including"
is_below_or_at(risk_score, border) == ~float_lt(border, risk_score)

\* main.py:239, 241  risk_score < 0.3, risk_score < 0.6
is_below(risk_score, border) == float_lt(risk_score, border)

\* main.py:236-244  the returned text, kept as the list of its parts
get_recommendations(event_type, risk_score) ==
    IF is_below(risk_score, tenths(3))
    THEN <<"Monitor weather conditions. No immediate action required.">>
    ELSE IF is_below(risk_score, tenths(6))
    THEN <<"Elevated ", event_type,
           " risk. Prepare emergency supplies and evacuation plan.">>
    ELSE <<"HIGH ", event_type,
           " RISK! Consider immediate evacuation. Follow emergency protocols.">>

\* main.py:211-215  the dict literal lists flood, fire, hurricane in this
\* order, and risks.items() keeps it
risk_items(weather) ==
    <<<<"flood", calculate_flood_risk(weather)>>,
      <<"fire", calculate_fire_risk(weather)>>,
      <<"hurricane", calculate_hurricane_risk(weather)>>>>

\* main.py:220-234  the dict returned for the item max() chose
prediction_dict(weather, max_risk_type) ==
    [location |-> get(weather, "city_name", weather.location),
     city_name |-> get(weather, "city_name", "Unknown"),
     latitude |-> weather.latitude,
     longitude |-> weather.longitude,
     timestamp |-> weather.timestamp,
     risk_score |-> max_risk_type[2],
     predicted_event_type |-> max_risk_type[1],
     confidence |-> 850,
     time_to_event_hours |-> IF float_lt(tenths(5), max_risk_type[2])
                             THEN 6 ELSE 24,
     recommended_actions |-> get_recommendations(max_risk_type[1],
                                                 max_risk_type[2])]

\* main.py:208-234
analyze_weather(weather) ==
    the({prediction_dict(weather, max_risk_type) :
            max_risk_type \in {max_item(risks, risks[1], 2) :
                                  risks \in {risk_items(weather)}}})

\* the observations analysed: every reading takes the values on both sides
\* of each threshold the three scores test
Precipitations == {0, 10, 11, 20, 21, 30, 31, 50, 51}
Pressures == {949, 950, 979, 980, 999, 1000}
Humidities == {19, 20, 29, 30, 90, 91}
WindSpeeds == {15, 16, 20, 21, 25, 26, 33, 34}
Temperatures == {30, 31, 35, 36}
Observations ==
    [location : {"Mumbai"}, latitude : {1908}, longitude : {7288},
     timestamp : {1}, temperature : Temperatures, humidity : Humidities,
     wind_speed : WindSpeeds, pressure : Pressures,
     precipitation : Precipitations]

CallAnalyzeWeather ==
    /\ args.fn = "analyze_weather"
    /\ returned = NotReturned
    /\ returned' = [returned |-> TRUE, value |-> analyze_weather(args.weather)]
    /\ UNCHANGED <<cacheVars, statsVars, reportVars, verifyVars, args>>

\* the scores get_recommendations and generate_alert are called with: the
\* multiples of 1/64 in [0,1], the literals 0.0 .. 1.0, and the sums of two
\* literals as += leaves them (0.1 + 0.2 is 0.30000000000000004)
RiskScores ==
    {[hi |-> k * (Limb \div 64), lo |-> 0] : k \in 0..64}
        \cup {tenths(k) : k \in 0..10}
        \cup {float_add(tenths(a), tenths(b)) : a \in 1..5, b \in 1..5}

EventTypes == {"flood", "fire", "hurricane"}

CallGetRecommendations ==
    /\ args.fn = "get_recommendations"
    /\ returned = NotReturned
    /\ returned' = [returned |-> TRUE,
                    value |-> get_recommendations(args.event_type,
                                                  args.risk_score)]
    /\ UNCHANGED <<cacheVars, statsVars, reportVars, verifyVars, args>>

(***************************************************************************)
(* advanced_features.py: AlertGenerator                                    *)
(***************************************************************************)
\* the clock moves on by at most MaxTick seconds between two reads of it
MaxTick == 1

\* a bug: a score exactly at a border falls into the band below
is_above(risk_score, border) == float_lt(border, risk_score)

\* advanced_features.py:254, 257, 260  risk_score >= 0.8, >= 0.6, >= 0.4
is_at_least(risk_score, border) == ~float_lt(risk_score, border)

\* advanced_features.py:246-289. now1, now2 and now3 are what the three
\* int(datetime.now().timestamp()) of lines 277, 278 and 287 return, in this
\* order. time_to_event_hours is a whole number of hours here, on which
\* int() changes nothing. The message text, built from the same values, is
\* left out.
generate_alert(risk_prediction, population_affected, now1, now2, now3) ==
    LET risk_score == get(risk_prediction, "risk_score", tenths(0))
        event_type == get(risk_prediction, "predicted_event_type", "unknown")
        level == IF is_at_least(risk_score, tenths(8))
                 THEN <<"CRITICAL", "red">>
                 ELSE IF is_at_least(risk_score, tenths(6))
                 THEN <<"SEVERE", "orange">>
                 ELSE IF is_at_least(risk_score, tenths(4))
                 THEN <<"MODERATE", "yellow">>
                 ELSE <<"ADVISORY", "blue">>
        time_to_event == get(risk_prediction, "time_to_event_hours", 24)
    IN  [alert_id |-> <<"ALERT-", now1>>,
         timestamp |-> now2,
         location |-> get(risk_prediction, "location", "Unknown"),
         latitude |-> get(risk_prediction, "latitude", 0),
         longitude |-> get(risk_prediction, "longitude", 0),
         alert_level |-> level[1],
         event_type |-> event_type,
         risk_score |-> risk_score,
         color_code |-> level[2],
         expires_at |-> now3 + time_to_event * 3600,
         population_affected |-> population_affected]

\* the predictions alerts are generated from: each with a score, and with or
\* without a time to the event
RiskPredictions ==
    [predicted_event_type : EventTypes, risk_score : RiskScores]
        \cup [predicted_event_type : EventTypes, risk_score : RiskScores,
              time_to_event_hours : {6, 24}]
        \cup {[predicted_event_type |-> "flood"]}

\* the second at which generate_alert is entered
Instants == {1700000000}

CallGenerateAlert ==
    /\ args.fn = "generate_alert"
    /\ returned = NotReturned
    /\ \E tick1 \in 0..MaxTick, tick2 \in 0..MaxTick :
          returned' =
              [returned |-> TRUE,
               value |-> generate_alert(args.risk_prediction,
                                        args.population_affected,
                                        args.now,
                                        args.now + tick1,
                                        args.now + tick1 + tick2)]
    /\ UNCHANGED <<cacheVars, statsVars, reportVars, verifyVars, args>>

(***************************************************************************)
(* advanced_features.py: EvacuationRouteOptimizer                          *)
(*                                                                         *)
(* A distance is kept in millimetres, a travel time in minutes, a safety   *)
(* score in thousandths; a value rounded to two decimals is kept in        *)
(* hundredths, a capacity score as the fraction num/den.                   *)
(***************************************************************************)
\* the length of 0.01 degree of latitude: 6371 km * pi / 180 / 100
MillimetresPerHundredth == 1111949

\* float('inf')
Infinity == 2^30

\* advanced_features.py:22-35  the haversine distance. All the points of the
\* model lie on one meridian (lon1 = lon2), where the formula reduces to
\* R * |lat2 - lat1| with the difference in radians.
calculate_distance(lat1, lon1, lat2, lon2) ==
    MillimetresPerHundredth * (IF lat2 >= lat1 THEN lat2 - lat1 ELSE lat1 - lat2)

\* round(num / den) for den > 0: the nearest integer, a tie going to the
\* even one
round_half_even(num, den) ==
    LET n == num \div den
        r == num - n * den
    IN  IF 2 * r < den THEN n
        ELSE IF 2 * r > den THEN n + 1
        ELSE IF n % 2 = 0 THEN n ELSE n + 1

\* a bug: the score has no floor
max_second(a, b) == b

\* advanced_features.py:121  max(0.1, safety_score - road_penalty)
max(a, b) == IF a >= b THEN a ELSE b

\* advanced_features.py:98-104  the least distance from the start to a zone
RECURSIVE min_disaster_distance(_, _, _, _)
min_disaster_distance(start_lat, start_lon, disaster_zones, least) ==
    IF disaster_zones = <<>> THEN least
    ELSE min_disaster_distance(
             start_lat, start_lon, Tail(disaster_zones),
             min(least, calculate_distance(start_lat, start_lon,
                                           Head(disaster_zones).latitude,
                                           Head(disaster_zones).longitude)))

\* advanced_features.py:79-130
calculate_route_safety(start_lat, start_lon, shelter_lat, shelter_lon, disaster_zones, blocked_roads) ==
    LET distance == calculate_distance(start_lat, start_lon,
                                       shelter_lat, shelter_lon)
        nearest == min_disaster_distance(start_lat, start_lon,
                                         disaster_zones, Infinity)
        \* safety_score in thousandths, and the factor of the travel time in
        \* tenths
        band == IF nearest < 2000000 THEN <<200, 15>>
                ELSE IF nearest < 5000000 THEN <<500, 12>>
                ELSE IF nearest < 10000000 THEN <<700, 10>>
                ELSE <<950, 10>>
        road_penalty == Len(blocked_roads) * 50
        safety_score == max(100, band[1] - road_penalty)
        \* (distance / 40) * 60 minutes, times the factor, plus the detours
    IN  [distance_km |-> round_half_even(distance, 10000),
         estimated_time_minutes |->
             (distance * 3 * band[2]) \div 20000000 + Len(blocked_roads) * 10,
         safety_score |-> round_half_even(safety_score, 10),
         disaster_distance_km |-> IF nearest = Infinity THEN Infinity
                                  ELSE round_half_even(nearest, 10000),
         recommended |-> safety_score > 600]

\* advanced_features.py:153-154  min(1.0, available / max(capacity, 1))
capacity_score(shelter) ==
    LET capacity_available ==
            get(shelter, "capacity", 0) - get(shelter, "current_occupancy", 0)
        places == IF get(shelter, "capacity", 1) > 1
                  THEN get(shelter, "capacity", 1) ELSE 1
    IN  IF capacity_available > places THEN [num |-> 1, den |-> 1]
        ELSE [num |-> capacity_available, den |-> places]

\* advanced_features.py:143-169  the entry appended for one shelter. The
\* combined score safety * 0.6 + capacity * 0.4, rounded to two decimals, is
\* (6 * safety * den + 400 * num) / (10 * den) hundredths, safety being the
\* rounded safety score in hundredths.
ranked_entry(user_lat, user_lon, shelter, disaster_zones) ==
    LET route_info == calculate_route_safety(user_lat, user_lon,
                                             shelter.latitude,
                                             shelter.longitude,
                                             disaster_zones, <<>>)
        score == capacity_score(shelter)
    IN  [shelter_id |-> get(shelter, "id", "unknown"),
         name |-> get(shelter, "name", "Emergency Shelter"),
         latitude |-> shelter.latitude,
         longitude |-> shelter.longitude,
         distance_km |-> route_info.distance_km,
         estimated_time_minutes |-> route_info.estimated_time_minutes,
         safety_score |-> route_info.safety_score,
         capacity_available |->
             get(shelter, "capacity", 0) - get(shelter, "current_occupancy", 0),
         combined_score |->
             round_half_even(6 * route_info.safety_score * score.den
                                 + 400 * score.num,
                             10 * score.den)]

\* list.sort(key=combined_score, reverse=True) places an entry: the sort is
\* stable, so the entry goes behind every entry of the same score that came
\* before it
RECURSIVE insert_by_score(_, _)
insert_by_score(sorted, entry) ==
    the({IF list = <<>> THEN <<entry>>
         ELSE IF Head(list).combined_score >= entry.combined_score
              THEN <<Head(list)>> \o insert_by_score(Tail(list), entry)
              ELSE <<entry>> \o list : list \in {sorted}})

\* advanced_features.py:172  ranked_shelters.sort(...) of the first n entries
RECURSIVE sort_by_score(_, _)
sort_by_score(entries, n) ==
    IF n = 0 THEN <<>>
    ELSE insert_by_score(sort_by_score(entries, n - 1), entries[n])

\* a bug: the list is returned whole
slice_all(entries, max_shelters) == entries

\* advanced_features.py:174  ranked_shelters[:max_shelters], max_shelters >= 0
slice_to(entries, max_shelters) ==
    SubSeq(entries, 1, min(max_shelters, Len(entries)))

\* advanced_features.py:132-174
find_best_shelter(user_lat, user_lon, shelters, disaster_zones, max_shelters) ==
    the({slice_to(sorted, max_shelters) :
            sorted \in {sort_by_score(ranked_shelters, Len(ranked_shelters)) :
                           ranked_shelters \in
                               {[i \in 1..Len(shelters) |->
                                    ranked_entry(user_lat, user_lon,
                                                 shelters[i], disaster_zones)]}}})

\* at most MaxShelters shelters are ranked in one call
MaxShelters == 3

\* the user of the calls, and the meridian every point lies on
UserLatitude == 1900
UserLongitude == 7288

\* the shelters of the calls: 11 km or 22 km north of the user; with room,
\* with one place less, overcrowded, without an occupancy, or of capacity 0
ShelterKinds ==
    [latitude : {UserLatitude + 10, UserLatitude + 20},
     longitude : {UserLongitude}, capacity : {100},
     current_occupancy : {20, 21, 150}]
        \cup [latitude : {UserLatitude + 10, UserLatitude + 20},
              longitude : {UserLongitude}, capacity : {100}]
        \cup [latitude : {UserLatitude + 10, UserLatitude + 20},
              longitude : {UserLongitude}, capacity : {0},
              current_occupancy : {20}]

\* the shelter lists: the shelter at position i has the id i
with_id(shelter, i) ==
    [key \in DOMAIN shelter \cup {"id"} |->
        IF key = "id" THEN i ELSE shelter[key]]

ShelterLists ==
    {[i \in DOMAIN kinds |-> with_id(kinds[i], i)] :
        kinds \in SeqsUpTo(ShelterKinds, MaxShelters)}

\* the hazard zones of the calls: none, one 1.1 km from the user, or two,
\* 6.7 km and 3.3 km from the user
ZoneLists ==
    {<<>>,
     <<[latitude |-> UserLatitude - 1, longitude |-> UserLongitude]>>,
     <<[latitude |-> UserLatitude - 6, longitude |-> UserLongitude],
       [latitude |-> UserLatitude + 3, longitude |-> UserLongitude]>>}

CallFindBestShelter ==
    /\ args.fn = "find_best_shelter"
    /\ returned = NotReturned
    /\ returned' = [returned |-> TRUE,
                    value |-> find_best_shelter(args.user_lat, args.user_lon,
                                                args.shelters,
                                                args.disaster_zones,
                                                args.max_shelters)]
    /\ UNCHANGED <<cacheVars, statsVars, reportVars, verifyVars, args>>

\* at most MaxBlocked blocked roads are passed to calculate_route_safety
MaxBlocked == 4

\* the hazard zones of the calls of calculate_route_safety: none, one zone
\* 1.1, 2.2, 4.4, 5.6, 8.9, 10.007 or 11.1 km from the start, or two zones
RouteZoneLists ==
    {<<>>}
        \cup {<<[latitude |-> UserLatitude + k, longitude |-> UserLongitude]>> :
                 k \in {1, 2, 4, 5, 8, 9, 10}}
        \cup {<<[latitude |-> UserLatitude - 6, longitude |-> UserLongitude],
                [latitude |-> UserLatitude + 3, longitude |-> UserLongitude]>>}

CallCalculateRouteSafety ==
    /\ args.fn = "calculate_route_safety"
    /\ returned = NotReturned
    /\ returned' =
           [returned |-> TRUE,
            value |-> calculate_route_safety(args.start_lat, args.start_lon,
                                             args.shelter_lat, args.shelter_lon,
                                             args.disaster_zones,
                                             args.blocked_roads)]
    /\ UNCHANGED <<cacheVars, statsVars, reportVars, verifyVars, args>>

(***************************************************************************)
(* advanced_features.py: ResourceAllocator                                 *)
(*                                                                         *)
(* A priority is kept in millionths, rounded down; a radius in tenths of a *)
(* km; a population is a multiple of 1000.                                 *)
(***************************************************************************)
\* advanced_features.py:189-193  min(estimated_affected, 10000) / 10000 in
\* millionths, with estimated_affected = population * pi * radius^2 / 100.
\* With n = population * radius^2 (radius in tenths of a km) this share is
\* n * pi / 10^8; it is 1 from n = 31830989 on, and below that
\* (n / 1000) * 31.41593 millionths.
affected_share(population, affected_radius) ==
    the({IF n >= 31830989 THEN 1000000
         ELSE (n \div 1000) * 31 + ((n \div 1000) * 41593) \div 100000 :
            n \in {population * affected_radius * affected_radius}})

\* a bug: the priority is not capped
priority_uncapped(priority) == priority

\* advanced_features.py:195  min(1.0, priority)
priority_capped(priority) == min(1000000, priority)

\* advanced_features.py:180-195. (severity / 10) * 0.5 is severity * 50000
\* millionths.
calculate_resource_priority(disaster_event, population) ==
    LET severity == get(disaster_event, "severity", 5)
        affected_radius == get(disaster_event, "affected_radius_km", 50)
    IN  priority_capped(severity * 50000
                            + affected_share(population, affected_radius) \div 2)

\* a bug: every zone above 0.5 is dispatched at once
dispatch_urgency_eager(priority) ==
    IF priority > 500000 THEN "IMMEDIATE" ELSE "NORMAL"

\* advanced_features.py:237  the urgency label
dispatch_urgency(priority) ==
    IF priority > 700000 THEN "IMMEDIATE"
    ELSE IF priority > 500000 THEN "HIGH" ELSE "NORMAL"

\* advanced_features.py:206-214  {**disaster, "priority": priority}
with_priority(disaster) ==
    the({[key \in DOMAIN disaster \cup {"priority"} |->
             IF key = "priority" THEN priority ELSE disaster[key]] :
            priority \in {calculate_resource_priority(
                              disaster, get(disaster, "population", 50000))}})

\* list.sort(key=priority, reverse=True) places a zone: the sort is stable
RECURSIVE insert_by_priority(_, _)
insert_by_priority(sorted, disaster) ==
    the({IF list = <<>> THEN <<disaster>>
         ELSE IF Head(list).priority >= disaster.priority
              THEN <<Head(list)>> \o insert_by_priority(Tail(list), disaster)
              ELSE <<disaster>> \o list : list \in {sorted}})

\* advanced_features.py:217  prioritized_disasters.sort(...) of the first n
RECURSIVE sort_by_priority(_, _)
sort_by_priority(disasters, n) ==
    IF n = 0 THEN <<>>
    ELSE insert_by_priority(sort_by_priority(disasters, n - 1), disasters[n])

\* advanced_features.py:222-238  the allocation of one zone; the location
\* "lat,lon" with two decimals each is kept as the pair of hundredths
allocation(disaster) ==
    [disaster_id |-> get(disaster, "event_id", "unknown"),
     location |-> <<disaster.latitude, disaster.longitude>>,
     priority |-> disaster.priority,
     severity |-> disaster.severity,
     needed_resources |->
         [medical_teams |-> disaster.severity * 2,
          water_supplies |-> disaster.severity * 100,
          food_supplies |-> disaster.severity * 150,
          rescue_vehicles |-> int_div(disaster.severity * 3, 2)],
     dispatch_urgency |-> dispatch_urgency(disaster.priority)]

\* the outcome of a call that raises instead of returning, and of one that
\* returns
KeyError == [raised |-> "KeyError"]

returns(value) == [value |-> value]

\* the record of a finished call, from its outcome
call_result(outcome) ==
    IF "raised" \in DOMAIN outcome
    THEN [returned |-> TRUE, raised |-> outcome.raised]
    ELSE [returned |-> TRUE, value |-> outcome.value]

\* advanced_features.py:197-240. The priorities read the severity with
\* get("severity", 5); the quotas read disaster["severity"],
\* disaster["latitude"] and disaster["longitude"], which raise KeyError for a
\* zone without the field. available_resources is never read.
allocate_resources(disasters, available_resources) ==
    IF \E i \in 1..Len(disasters) :
          ~({"severity", "latitude", "longitude"} \subseteq DOMAIN disasters[i])
    THEN KeyError
    ELSE the({returns([i \in 1..Len(prioritized) |->
                          allocation(prioritized[i])]) :
                 prioritized \in
                     {sort_by_priority(with, Len(with)) :
                         with \in {[i \in 1..Len(disasters) |->
                                       with_priority(disasters[i])]}}})

\* the zones of the calls: a severity from 0 to 10, above it, or none; a
\* radius of 0, 1 or 12 km, or none (5 km)
ZoneEvents ==
    [severity : {0, 4, 8, 10, 12}, affected_radius_km : {0, 10, 120}]
        \cup [severity : {0, 4, 8, 10, 12}]
        \cup [affected_radius_km : {0, 10, 120}]
        \cup {[event_id |-> "DIS-0"]}

Populations == {0, 1000, 50000}

CallCalculateResourcePriority ==
    /\ args.fn = "calculate_resource_priority"
    /\ returned = NotReturned
    /\ returned' =
           [returned |-> TRUE,
            value |-> calculate_resource_priority(args.disaster_event,
                                                  args.population)]
    /\ UNCHANGED <<cacheVars, statsVars, reportVars, verifyVars, args>>

\* at most MaxZones zones are passed to allocate_resources
MaxZones == 2

\* an optional field a zone of the calls does not have
Absent == -1

\* the dict with its absent fields left out
without_absent(fields) ==
    [key \in {k \in DOMAIN fields : fields[k] # Absent} |-> fields[key]]

\* the zones of the calls: a severity from 0 to 10 or none, a radius of 1 km
\* or none (5 km), a population of 1000 or none (50000)
DisasterKinds ==
    {without_absent(fields) :
        fields \in [latitude : {UserLatitude}, longitude : {UserLongitude},
                    severity : {0, 4, 8, 10, Absent},
                    affected_radius_km : {10, Absent},
                    population : {1000, Absent}]}

\* the zone lists: the zone at position i has the event_id i
with_event_id(disaster, i) ==
    [key \in DOMAIN disaster \cup {"event_id"} |->
        IF key = "event_id" THEN i ELSE disaster[key]]

DisasterLists ==
    {[i \in DOMAIN kinds |-> with_event_id(kinds[i], i)] :
        kinds \in SeqsUpTo(DisasterKinds, MaxZones)}

CallAllocateResources ==
    /\ args.fn = "allocate_resources"
    /\ returned = NotReturned
    /\ returned' = call_result(allocate_resources(args.disasters,
                                                  args.available_resources))
    /\ UNCHANGED <<cacheVars, statsVars, reportVars, verifyVars, args>>

(***************************************************************************)
(* An engine function called a second time with the arguments of the first *)
(* call                                                                    *)
(***************************************************************************)
\* the outcomes a call of args.fn entered `later` seconds after args.now can
\* have: generate_alert reads the clock three times (advanced_features.py:277,
\* 278, 287), analyze_weather and allocate_resources read only their
\* arguments
outcomes(call, later) ==
    IF call.fn = "generate_alert"
    THEN {returns(generate_alert(call.risk_prediction,
                                 call.population_affected,
                                 call.now + later,
                                 call.now + later + tick1,
                                 call.now + later + tick1 + tick2)) :
             tick1 \in 0..MaxTick, tick2 \in 0..MaxTick}
    ELSE IF call.fn = "allocate_resources"
    THEN {allocate_resources(call.disasters, call.available_resources)}
    ELSE {returns(analyze_weather(call.weather))}

\* the record of the first call, with the outcome of the second
with_again(first, outcome) ==
    [key \in DOMAIN first \cup {"again"} |->
        IF key = "again" THEN outcome ELSE first[key]]

CallAgain ==
    /\ returned.returned
    /\ "again" \notin DOMAIN returned
    /\ \E later \in 0..MaxTick :
          \E outcome \in outcomes(args, later) :
             returned' = with_again(returned, outcome)
    /\ UNCHANGED <<cacheVars, statsVars, reportVars, verifyVars, args>>

\* the observations of the repeated calls: dry and wet, calm and stormy
RepeatedObservations ==
    {weather \in Observations :
        /\ weather.temperature = 36
        /\ weather.humidity = 19
        /\ weather.pressure = 949}

(***************************************************************************)
(* simple_api_server.py: the caches and their handlers                     *)
(*                                                                         *)
(* One request is served at a time. The caches are empty when the module   *)
(* is loaded; the start-up refresh of lines 597-598 is a refresh_data. The *)
(* clock shows the number of the fetch; a risk score is kept in            *)
(* hundredths.                                                             *)
(***************************************************************************)
\* what the handlers of the simplified server leave alone
simpleIdle == <<rpc, weather_data, risk_predictions, after_failure, spc, stats_seen, citizen_reports, reports, verification, args, returned>>

\* what the provider (or the mock of lines 92-107) reports for a location
WeatherReadings ==
    [weather_condition : {"Storm"}, wind_speed : {5}, temperature : {20}]
        \cup [weather_condition : {"Rain"}, wind_speed : {25}, temperature : {20}]
        \cup [weather_condition : {"Clear"}, wind_speed : {5}, temperature : {20, 36}]

\* simple_api_server.py:87-134  the weather_cache fetch_weather_data leaves:
\* one observation per location whose request succeeded (lines 110-134; the
\* mock of lines 92-107 gives every location), a failed one is logged
RECURSIVE simple_fetch_weather_data(_, _, _, _)
simple_fetch_weather_data(locations, succeeded, readings, now) ==
    IF locations = <<>> THEN <<>>
    ELSE the({IF loc \in succeeded
              THEN <<[location |-> loc,
                      weather_condition |-> readings[loc].weather_condition,
                      wind_speed |-> readings[loc].wind_speed,
                      temperature |-> readings[loc].temperature,
                      timestamp |-> now]>>
                       \o simple_fetch_weather_data(Tail(locations), succeeded,
                                                    readings, now)
              ELSE simple_fetch_weather_data(Tail(locations), succeeded,
                                             readings, now) :
                 loc \in {Head(locations)}})

\* simple_api_server.py:147-163  the band random.uniform draws the score
\* from, and the event
risk_band(weather) ==
    IF weather.weather_condition \in {"Storm", "Thunderstorm"}
    THEN [low |-> 70, high |-> 95, event |-> "Severe Storm"]
    ELSE IF weather.weather_condition = "Rain" /\ weather.wind_speed > 20
    THEN [low |-> 50, high |-> 80, event |-> "Heavy Rain & Wind"]
    ELSE IF weather.temperature > 35
    THEN [low |-> 40, high |-> 70, event |-> "Heat Wave"]
    ELSE IF weather.temperature < 0
    THEN [low |-> 30, high |-> 60, event |-> "Freezing Conditions"]
    ELSE [low |-> 10, high |-> 30, event |-> "Normal Conditions"]

\* what random.uniform may return: one end of the band or the other
Draws == {"low", "high"}

\* simple_api_server.py:137-173  the risk_predictions_cache analyze_risks
\* leaves: one prediction per observation of weather_cache, in order
analyze_risks(weather, draws, now) ==
    [i \in 1..Len(weather) |->
        [location |-> weather[i].location,
         risk_score |-> risk_band(weather[i])[draws[i]],
         predicted_event_type |-> risk_band(weather[i]).event,
         timestamp |-> now]]

\* simple_api_server.py:432-442  GET /api/v1/weather: an empty weather_cache
\* is fetched, and nothing is analysed
get_weather ==
    /\ IF weather_cache = <<>>
       THEN /\ clock < MaxClock
            /\ clock' = clock + 1
            /\ \E succeeded \in SUBSET (1..NumLocations),
                  readings \in [1..NumLocations -> WeatherReadings] :
                  weather_cache' =
                      simple_fetch_weather_data(monitored_locations, succeeded,
                                                readings, clock')
       ELSE UNCHANGED <<weather_cache, clock>>
    /\ response' = [kind |-> "weather", count |-> Len(weather_cache')]
    /\ UNCHANGED <<risk_predictions_cache, simpleIdle>>

\* fetch_weather_data() followed by analyze_risks(), as lines 449-450,
\* 471-472 and 579-580 call them
fetch_and_analyze ==
    /\ clock < MaxClock
    /\ clock' = clock + 1
    /\ \E succeeded \in SUBSET (1..NumLocations),
          readings \in [1..NumLocations -> WeatherReadings] :
          weather_cache' =
              simple_fetch_weather_data(monitored_locations, succeeded,
                                        readings, clock')
    /\ \E draws \in [1..Len(weather_cache') -> Draws] :
          risk_predictions_cache' = analyze_risks(weather_cache', draws, clock')

\* simple_api_server.py:445-464  GET /api/v1/risk-predictions?min_risk=
get_risk_predictions ==
    /\ IF risk_predictions_cache = <<>>
       THEN fetch_and_analyze
       ELSE UNCHANGED <<weather_cache, risk_predictions_cache, clock>>
    /\ \E min_risk \in {0, 60} :
          response' =
              [kind |-> "risk-predictions",
               count |-> Cardinality(
                   {i \in DOMAIN risk_predictions_cache' :
                       risk_predictions_cache'[i].risk_score >= min_risk})]
    /\ UNCHANGED simpleIdle

\* simple_api_server.py:467-493  GET /api/v1/alerts
get_alerts ==
    /\ IF risk_predictions_cache = <<>>
       THEN fetch_and_analyze
       ELSE UNCHANGED <<weather_cache, risk_predictions_cache, clock>>
    /\ response' =
           [kind |-> "alerts",
            count |-> Cardinality(
                {i \in DOMAIN risk_predictions_cache' :
                    risk_predictions_cache'[i].risk_score >= 60})]
    /\ UNCHANGED simpleIdle

\* simple_api_server.py:576-585  POST /api/v1/refresh
refresh_data ==
    /\ fetch_and_analyze
    /\ response' = [kind |-> "refreshed"]
    /\ UNCHANGED simpleIdle

NextSimple == get_weather \/ get_risk_predictions \/ get_alerts \/ refresh_data

(***************************************************************************)
(* api_server.py: get_resource_allocation                                  *)
(***************************************************************************)
HalfLimb == 2^14

\* risk_score * 10 on floats: the exact product, rounded to the nearest
\* double. The product is the record [whole, hi, lo] with the value
\* whole + (hi * 2^28 + lo) / 2^56; the limbs are multiplied in halves of 14
\* bits.
float_times_ten(x) ==
    LET lo_low == ((x.lo % HalfLimb) * 10) % HalfLimb
        lo_high == (x.lo \div HalfLimb) * 10
                       + ((x.lo % HalfLimb) * 10) \div HalfLimb
        lo10 == (lo_high % HalfLimb) * HalfLimb + lo_low
        hi_low == (x.hi % HalfLimb) * 10 + lo_high \div HalfLimb
        hi_high == (x.hi \div HalfLimb) * 10 + hi_low \div HalfLimb
        hi10 == (hi_high % HalfLimb) * HalfLimb + (hi_low % HalfLimb)
        whole == hi_high \div HalfLimb
        q == IF whole >= 8 THEN 128
             ELSE IF whole >= 4 THEN 64
             ELSE IF whole >= 2 THEN 32
             ELSE IF whole >= 1 THEN 16
             ELSE float_ulp(hi10)
        r == lo10 % q
        down == lo10 - r
        up_wins == 2 * r > q \/ (2 * r = q /\ (down \div q) % 2 = 1)
        rounded == IF up_wins THEN down + q ELSE down
    IN  IF rounded < Limb THEN [whole |-> whole, hi |-> hi10, lo |-> rounded]
        ELSE IF hi10 + 1 < Limb THEN [whole |-> whole, hi |-> hi10 + 1, lo |-> 0]
        ELSE [whole |-> whole + 1, hi |-> 0, lo |-> 0]

\* a bug: every prediction becomes a zone
is_any_risk(pred) == TRUE

\* api_server.py:557  pred.get('risk_score', 0) > 0.5
is_high_risk(pred) == float_lt(tenths(5), get(pred, "risk_score", tenths(0)))

\* api_server.py:549-556  the zone of a prediction: severity int(risk * 10),
\* radius 5 + risk * 10 km in tenths of a km, rounded down
disaster_of(pred, i) ==
    the({[event_id |-> <<"DIS-", i>>,
          latitude |-> pred.latitude,
          longitude |-> pred.longitude,
          severity |-> product.whole,
          affected_radius_km |->
              50 + product.whole * 10
                 + ((product.hi \div HalfLimb) * 10) \div HalfLimb,
          population |-> 50000] :
             product \in {float_times_ten(get(pred, "risk_score", tenths(0)))}})

\* api_server.py:547-558  the zones of the predictions from position i on;
\* enumerate counts the predictions from 0
RECURSIVE disasters_from(_, _)
disasters_from(predictions, i) ==
    IF i > Len(predictions) THEN <<>>
    ELSE IF is_high_risk(predictions[i])
    THEN <<disaster_of(predictions[i], i - 1)>>
             \o disasters_from(predictions, i + 1)
    ELSE disasters_from(predictions, i + 1)

\* at most MaxCached predictions are in risk_predictions_cache
MaxCached == 2

\* the predictions of the cache: the scores are literals, sums of two
\* literals as analyze_weather leaves them, 33/64 and 51/64; a prediction may
\* have no score
CachedPredictions ==
    [location : {"New York"}, latitude : {4071}, longitude : {-7398},
     risk_score : {tenths(k) : k \in 0..10}
                      \cup {float_add(tenths(a), tenths(b)) :
                               a \in 1..5, b \in 1..5}
                      \cup {[hi |-> k * (Limb \div 64), lo |-> 0] :
                               k \in {33, 51}}]
        \cup {[location |-> "New York", latitude |-> 4071,
               longitude |-> -7398]}

\* api_server.py:542-566  GET /api/v1/resources/allocation
get_resource_allocation ==
    /\ response' =
           the({IF "raised" \in DOMAIN outcome
                THEN [kind |-> "error", raised |-> outcome.raised]
                ELSE [kind |-> "allocation", count |-> Len(outcome.value),
                      data |-> outcome.value] :
                   outcome \in {allocate_resources(
                                   disasters_from(risk_predictions_cache, 1),
                                   <<>>)}})
    /\ UNCHANGED <<cacheVars, statsVars, verifyVars, engineVars,
                   citizen_reports>>

(***************************************************************************)
(* api_server.py: get_evacuation_route                                     *)
(***************************************************************************)
\* api_server.py:49-77  the shelters of the server, their positions rounded
\* to hundredths of a degree and put on the meridian of the requests
shelters ==
    <<[id |-> "shelter_001", name |-> "Central Emergency Shelter",
       latitude |-> 4076, longitude |-> -7398, capacity |-> 500,
       current_occupancy |-> 120],
      [id |-> "shelter_002", name |-> "Community Sports Complex",
       latitude |-> 4075, longitude |-> -7398, capacity |-> 800,
       current_occupancy |-> 200],
      [id |-> "shelter_003", name |-> "High School Gymnasium",
       latitude |-> 4078, longitude |-> -7398, capacity |-> 350,
       current_occupancy |-> 80]>>

\* the JSON bodies of the requests: a point near the shelters, a point on
\* the equator or on the prime meridian, or a body without a coordinate
RouteBodies ==
    [latitude : {0, 4070}, longitude : {0, -7398}]
        \cup [latitude : {0, 4070}]
        \cup [longitude : {0, -7398}]
        \cup {[user_id |-> "anonymous"]}

\* api_server.py:506  not data.get(key): the field is absent (None) or is 0
is_falsy(data, key) == key \notin DOMAIN data \/ data[key] = 0

\* api_server.py:513-521  the zones of the predictions above 0.5
RECURSIVE disaster_zones_from(_, _)
disaster_zones_from(predictions, i) ==
    IF i > Len(predictions) THEN <<>>
    ELSE IF is_high_risk(predictions[i])
    THEN <<[latitude |-> predictions[i].latitude,
            longitude |-> predictions[i].longitude,
            severity |-> float_times_ten(predictions[i].risk_score)]>>
             \o disaster_zones_from(predictions, i + 1)
    ELSE disaster_zones_from(predictions, i + 1)

\* api_server.py:498-539  POST /api/v1/evacuation/route
get_evacuation_route ==
    /\ args.fn = "get_evacuation_route"
    /\ returned = NotReturned
    /\ returned' =
           IF is_falsy(args.data, "latitude") \/ is_falsy(args.data, "longitude")
           THEN [returned |-> TRUE, code |-> 400,
                 value |-> [status |-> "error",
                            message |-> "Latitude and longitude required"]]
           ELSE the({[returned |-> TRUE, code |-> 200,
                      value |->
                          [status |-> "success",
                           user_location |->
                               [latitude |-> args.data.latitude,
                                longitude |-> args.data.longitude],
                           recommended_shelters |->
                               find_best_shelter(args.data.latitude,
                                                 args.data.longitude,
                                                 shelters, disaster_zones, 3),
                           disaster_zones_nearby |-> Len(disaster_zones)]] :
                        disaster_zones \in
                            {disaster_zones_from(risk_predictions_cache, 1)}})
    /\ UNCHANGED <<cacheVars, statsVars, reportVars, verifyVars, args>>

(***************************************************************************)
(* The refresh thread beside one request thread                            *)
(***************************************************************************)
\* app.py:33-37 and api_server.py:45-46: the loop is about to start its first
\* cycle, the caches are the empty lists created at import, no request runs.
InitCache ==
    /\ weather_cache = <<>>
    /\ risk_predictions_cache = <<>>
    /\ rpc = "fetch"
    /\ weather_data = <<>>
    /\ risk_predictions = <<>>
    /\ clock = 1
    /\ after_failure = FALSE
    /\ spc = "idle"
    /\ stats_seen = NoStats

\* api_server.py:47: no report has been posted
InitReports ==
    /\ citizen_reports = <<>>
    /\ response = NoResponse

\* no call of verify_reports is under way
InitCall ==
    /\ reports = <<>>
    /\ verification = NotCalled

\* no call of an engine function is under way
InitEngine ==
    /\ args = NoArgs
    /\ returned = NotReturned

Init == InitCache /\ InitReports /\ InitCall /\ InitEngine

Next == run_pathway_processor \/ get_stats

Spec == Init /\ [][Next]_vars

\* The report handlers alone: they share no state with the refresh thread.
ReportsSpec == Init /\ [][NextReports]_vars

\* verify_reports applied once to each list of at most MaxReports reports
InitVerify ==
    /\ InitCache
    /\ InitReports
    /\ reports \in SeqsUpTo(CallReports, MaxReports)
    /\ verification = NotCalled
    /\ InitEngine

VerifySpec == InitVerify /\ [][CallVerifyReports]_vars

\* The refresh thread alone (no handler shares a lock with it, so none can
\* hold it up): it keeps being scheduled, and the weather provider does not
\* deliver malformed readings for ever.
LiveSpec ==
    /\ Init
    /\ [][run_pathway_processor]_vars
    /\ WF_vars(run_pathway_processor)
    /\ SF_vars(AnalyzeRisks)

\* grid_cell applied once to each coordinate pair and grid size
InitGrid ==
    /\ InitCache
    /\ InitReports
    /\ InitCall
    /\ args \in GridCalls
    /\ returned = NotReturned

GridSpec == InitGrid /\ [][CallGridCell]_vars

\* analyze_weather applied once to each observation
InitAnalyze ==
    /\ InitCache
    /\ InitReports
    /\ InitCall
    /\ args \in [fn : {"analyze_weather"}, weather : Observations]
    /\ returned = NotReturned

AnalyzeSpec == InitAnalyze /\ [][CallAnalyzeWeather]_vars

\* get_recommendations applied once to each hazard and score
InitRecommend ==
    /\ InitCache
    /\ InitReports
    /\ InitCall
    /\ args \in [fn : {"get_recommendations"}, event_type : EventTypes,
                 risk_score : RiskScores]
    /\ returned = NotReturned

RecommendSpec == InitRecommend /\ [][CallGetRecommendations]_vars

\* generate_alert applied once to each prediction, the clock ticking or not
\* while the alert is built
InitAlert ==
    /\ InitCache
    /\ InitReports
    /\ InitCall
    /\ args \in [fn : {"generate_alert"}, risk_prediction : RiskPredictions,
                 population_affected : {1000}, now : Instants]
    /\ returned = NotReturned

AlertSpec == InitAlert /\ [][CallGenerateAlert]_vars

\* find_best_shelter applied once to each list of shelters, list of hazard
\* zones and number of shelters asked for
InitShelter ==
    /\ InitCache
    /\ InitReports
    /\ InitCall
    /\ args \in [fn : {"find_best_shelter"}, user_lat : {UserLatitude},
                 user_lon : {UserLongitude}, shelters : ShelterLists,
                 disaster_zones : ZoneLists, max_shelters : 0..MaxShelters]
    /\ returned = NotReturned

ShelterSpec == InitShelter /\ [][CallFindBestShelter]_vars

\* calculate_route_safety applied once to each shelter position, list of
\* hazard zones and number of blocked roads
InitRoute ==
    /\ InitCache
    /\ InitReports
    /\ InitCall
    /\ args \in [fn : {"calculate_route_safety"},
                 start_lat : {UserLatitude}, start_lon : {UserLongitude},
                 shelter_lat : {UserLatitude, UserLatitude + 10,
                                UserLatitude + 20},
                 shelter_lon : {UserLongitude},
                 disaster_zones : RouteZoneLists,
                 blocked_roads : {[i \in 1..b |-> [road |-> i]] :
                                     b \in 0..MaxBlocked}]
    /\ returned = NotReturned

RouteSpec == InitRoute /\ [][CallCalculateRouteSafety]_vars

\* calculate_resource_priority applied once to each zone and population
InitPriority ==
    /\ InitCache
    /\ InitReports
    /\ InitCall
    /\ args \in [fn : {"calculate_resource_priority"},
                 disaster_event : ZoneEvents, population : Populations]
    /\ returned = NotReturned

PrioritySpec == InitPriority /\ [][CallCalculateResourcePriority]_vars

\* allocate_resources applied once to each list of zones
InitAllocate ==
    /\ InitCache
    /\ InitReports
    /\ InitCall
    /\ args \in [fn : {"allocate_resources"}, disasters : DisasterLists,
                 available_resources : {<<>>}]
    /\ returned = NotReturned

AllocSpec == InitAllocate /\ [][CallAllocateResources]_vars

\* generate_alert, allocate_resources or analyze_weather called twice with
\* the same arguments, the second call at the same second or later
InitRepeat ==
    /\ InitCache
    /\ InitReports
    /\ InitCall
    /\ args \in [fn : {"generate_alert"}, risk_prediction : RiskPredictions,
                 population_affected : {1000}, now : Instants]
                    \cup [fn : {"allocate_resources"},
                          disasters : DisasterLists,
                          available_resources : {<<>>}]
                    \cup [fn : {"analyze_weather"},
                          weather : RepeatedObservations]
    /\ returned = NotReturned

NextRepeat ==
    \/ CallGenerateAlert
    \/ CallAllocateResources
    \/ CallAnalyzeWeather
    \/ CallAgain

RepeatSpec == InitRepeat /\ [][NextRepeat]_vars

\* The handlers of the simplified server, one request at a time.
SimpleSpec == Init /\ [][NextSimple]_vars

\* the allocation endpoint beside a cache that holds any predictions
InitAllocation ==
    /\ weather_cache = <<>>
    /\ risk_predictions_cache \in SeqsUpTo(CachedPredictions, MaxCached)
    /\ rpc = "fetch"
    /\ weather_data = <<>>
    /\ risk_predictions = <<>>
    /\ clock = 1
    /\ after_failure = FALSE
    /\ spc = "idle"
    /\ stats_seen = NoStats
    /\ InitReports
    /\ InitCall
    /\ InitEngine

AllocationSpec == InitAllocation /\ [][get_resource_allocation]_vars

\* the evacuation endpoint, one request beside a cache of any predictions
InitEvacuation ==
    /\ weather_cache = <<>>
    /\ risk_predictions_cache \in SeqsUpTo(CachedPredictions, MaxCached)
    /\ rpc = "fetch"
    /\ weather_data = <<>>
    /\ risk_predictions = <<>>
    /\ clock = 1
    /\ after_failure = FALSE
    /\ spc = "idle"
    /\ stats_seen = NoStats
    /\ InitReports
    /\ InitCall
    /\ args \in [fn : {"get_evacuation_route"}, data : RouteBodies]
    /\ returned = NotReturned

EvacuationSpec == InitEvacuation /\ [][get_evacuation_route]_vars

(***************************************************************************)
(* Claims about the refresh loop and the caches                            *)
(***************************************************************************)
\* C1: a get_stats response is built from a weather batch and a risk batch
\* published by the same refresh cycle: when the handler has done its three
\* reads, the predictions it read are those of the observations it read.
C1_ConsistentSnapshot ==
    spc = "respond" =>
        /\ stats_seen.high_risk = analyze_all(stats_seen.weather)
        /\ stats_seen.moderate_risk = analyze_all(stats_seen.weather)

\* A cycle has failed when an exception is being handled, or when the batch it
\* is about to publish misses at least one monitored location.
FailedCycle ==
    \/ rpc = "except"
    \/ /\ rpc \in {"update_weather", "update_risk"}
       /\ Len(weather_data) < NumLocations

\* A cache still holds what a successful cycle published: one entry per
\* monitored location.
SnapshotLive ==
    \/ Len(weather_cache) = NumLocations
    \/ Len(risk_predictions_cache) = NumLocations

\* C2: a failed refresh cycle leaves the caches as the last successful cycle
\* published them: no step taken while the cycle has failed changes a cache
\* that holds a successful cycle's batch.
C2_FailedCycleKeepsSnapshot ==
    [][(FailedCycle /\ SnapshotLive) =>
          UNCHANGED <<weather_cache, risk_predictions_cache>>]_vars

\* The caches hold what the cycle now running fetched and analysed.
Published ==
    /\ weather_cache = weather_data
    /\ risk_predictions_cache = risk_predictions
    /\ \A i \in 1..Len(weather_cache) : weather_cache[i].timestamp = clock

\* C3: the loop survives a failed cycle: whenever the except clause is entered,
\* the loop later completes update_cache with the batches of the cycle then
\* running and reaches its sleep(300).
C3_RetryPublishes ==
    (rpc = "except") ~> (rpc = "sleep" /\ after_failure /\ Published)

\* C3 witness: a full snapshot was published by a cycle that followed a
\* failed one.
C3_Witness ==
    /\ rpc = "sleep"
    /\ after_failure
    /\ Published
    /\ Len(weather_cache) = NumLocations

(***************************************************************************)
(* Claims about the verified-incident list                                 *)
(***************************************************************************)
SingleHazard(g) ==
    \A i, j \in 1..Len(g) : g[i].report_type = g[j].report_type

\* C4: reports are partitioned by grid cell and then by hazard type: no group
\* handed to verify_reports, and no incident of the response, holds two
\* reports of different hazard types.
C4_GroupsSingleHazard ==
    response.kind = "verified" =>
        /\ \A i \in 1..Len(groups_verified(citizen_reports)) :
              SingleHazard(groups_verified(citizen_reports)[i])
        /\ \A i \in 1..Len(response.data) : SingleHazard(response.data[i].reports)

\* C5: every incident of the verified-incident list is verified: its group
\* has at least 3 reports and a confidence above 0.6.
C5_ListedAreVerified ==
    response.kind = "verified" =>
        \A i \in 1..Len(response.data) :
            /\ response.data[i].verified
            /\ response.data[i].report_count >= 3
            /\ response.data[i].confidence > 600

(***************************************************************************)
(* Claims about verify_reports                                             *)
(***************************************************************************)
Called == "verified" \in DOMAIN verification

\* The population variance of the severities is above 9, stated as
\* E[s^2] - E[s]^2 > 9, that is n * sum(s^2) - sum(s)^2 > 9 * n^2.
VarianceAbove9(rs) ==
    LET sv == severities(rs)
        n == Len(rs)
    IN  n * sum([i \in 1..n |-> sv[i] * sv[i]]) - sum(sv) * sum(sv) > 9 * n * n

\* C6: a list of fewer than 2 reports gives confidence 0.3, verified false and
\* the report count; the consensus severity is the single report's severity
\* (5 when the field is absent) and 5 for the empty list.
C6_FewReports ==
    (Called /\ Len(reports) < 2) =>
        /\ verification.confidence = 300
        /\ verification.verified = FALSE
        /\ verification.report_count = Len(reports)
        /\ Len(reports) = 0 => verification.consensus_severity = 5
        /\ (Len(reports) = 1 /\ "severity" \in DOMAIN reports[1]) =>
              verification.consensus_severity = reports[1].severity
        /\ (Len(reports) = 1 /\ "severity" \notin DOMAIN reports[1]) =>
              verification.consensus_severity = 5

\* C6 witness: the call returned for a single report without a severity.
C6_Witness ==
    /\ Called
    /\ Len(reports) = 1
    /\ "severity" \notin DOMAIN reports[1]
    /\ verification.consensus_severity = 5

\* C7: for 2 or more reports the confidence is min(0.3 + 0.15 * count, 0.95),
\* times 0.7 exactly when the variance of the severities is above 9; the
\* confidence never exceeds 0.95.
C7_Confidence ==
    Called =>
        /\ verification.confidence <= 950
        /\ Len(reports) >= 2 =>
              LET capped == IF 300 + 150 * Len(reports) < 950
                            THEN 300 + 150 * Len(reports) ELSE 950
              IN  /\ VarianceAbove9(reports) =>
                        10 * verification.confidence = 7 * capped
                  /\ ~VarianceAbove9(reports) => verification.confidence = capped

\* C7 witness: the cap is in force (5 reports) and the penalty is applied.
C7_Witness ==
    /\ Called
    /\ Len(reports) >= 5
    /\ VarianceAbove9(reports)
    /\ verification.confidence = 665

\* C8: verified holds exactly when there are at least 3 reports and the final
\* confidence is above 0.6; 3 reports of one severity s give variance 0,
\* confidence 0.75, consensus severity s and verified.
C8_VerifiedIff ==
    Called =>
        /\ verification.verified <=>
              (Len(reports) >= 3 /\ verification.confidence > 600)
        /\ (/\ Len(reports) = 3
            /\ \A i \in 1..3 : severities(reports)[i] = severities(reports)[1]) =>
              /\ verification.variance.num = 0
              /\ verification.confidence = 750
              /\ verification.consensus_severity = severities(reports)[1]
              /\ verification.verified

\* C8 witness: three reports of severity 7 were verified.
C8_Witness ==
    /\ Called
    /\ Len(reports) = 3
    /\ \A i \in 1..3 : severities(reports)[i] = 7
    /\ verification.verified

\* C9: every group of 4 or more reports is verified, and a group of exactly 3
\* reports is verified exactly when its severity variance is at most 9.
C9_PenaltyOnlyAtThree ==
    Called =>
        /\ Len(reports) >= 4 => verification.verified
        /\ Len(reports) = 3 => (verification.verified <=> ~VarianceAbove9(reports))

\* C9 witness: [1, 1, 1, 9, 9] is verified with confidence 0.665.
C9_Witness ==
    /\ Called
    /\ severities(reports) = <<1, 1, 1, 9, 9>>
    /\ verification.confidence = 665
    /\ verification.verified

\* C10: severities are clamped to [1,10] on read, so the consensus severity
\* verify_reports returns lies in [1,10] whatever severities the reports carry.
C10_ConsensusClamped ==
    Called => verification.consensus_severity \in 1..10

(***************************************************************************)
(* Claims about grid_cell and the consensus severity                       *)
(***************************************************************************)
\* C11: grid_cell(lat, lon, size) is (floor(lat / size), floor(lon / size))
\* for every coordinate, negative ones included, so that every cell spans
\* exactly size degrees on each axis.
C11_GridCellIsFloor ==
    (args.fn = "grid_cell" /\ returned.returned) =>
        returned.value = <<args.lat \div args.grid_size,
                           args.lon \div args.grid_size>>

\* C12: for every group of two or more reports the consensus severity is the
\* floor of the mean of the severities, whatever severities the reports carry.
C12_ConsensusIsFloor ==
    (Called /\ Len(reports) >= 2) =>
        verification.consensus_severity =
            sum(severities(reports)) \div Len(reports)

(***************************************************************************)
(* Claims about the risk scorer                                            *)
(***************************************************************************)
\* The three scores as the sums of the documented increments, in tenths.
FloodTenths(w) ==
    min(10, (IF w.precipitation > 50 THEN 5 ELSE IF w.precipitation > 20 THEN 3
             ELSE IF w.precipitation > 10 THEN 1 ELSE 0)
          + (IF w.pressure < 980 THEN 3 ELSE IF w.pressure < 1000 THEN 1 ELSE 0)
          + (IF w.humidity > 90 THEN 1 ELSE 0)
          + (IF w.wind_speed > 20 THEN 1 ELSE 0))

FireTenths(w) ==
    min(10, (IF w.temperature > 35 THEN 4 ELSE IF w.temperature > 30 THEN 2 ELSE 0)
          + (IF w.humidity < 20 THEN 3 ELSE IF w.humidity < 30 THEN 2 ELSE 0)
          + (IF w.wind_speed > 25 THEN 3 ELSE IF w.wind_speed > 15 THEN 1 ELSE 0)
          + (IF w.precipitation = 0 THEN 1 ELSE 0))

HurricaneTenths(w) ==
    min(10, (IF w.pressure < 950 THEN 6 ELSE IF w.pressure < 980 THEN 4
             ELSE IF w.pressure < 1000 THEN 2 ELSE 0)
          + (IF w.wind_speed > 33 THEN 5 ELSE IF w.wind_speed > 25 THEN 3 ELSE 0)
          + (IF w.precipitation > 30 THEN 2 ELSE 0))

\* Two floats are the same number up to the rounding of a few additions:
\* they differ by less than 2^-27.
SameScore(x, y) == x.hi - y.hi \in -1..1

Analyzed == args.fn = "analyze_weather" /\ returned.returned

\* C13: analyze_weather returns as risk_score the greatest of the flood, fire
\* and hurricane scores, each the clamped sum of its threshold increments,
\* and as predicted_event_type the first of flood, fire, hurricane whose
\* score is that greatest one; the risk_score lies in [0,1].
C13_MaxRiskFirstHazard ==
    Analyzed =>
        LET flood == FloodTenths(args.weather)
            fire == FireTenths(args.weather)
            hurricane == HurricaneTenths(args.weather)
            greatest == IF flood >= fire /\ flood >= hurricane THEN flood
                        ELSE IF fire >= hurricane THEN fire ELSE hurricane
        IN  /\ SameScore(returned.value.risk_score, tenths(greatest))
            /\ returned.value.predicted_event_type =
                   IF flood = greatest THEN "flood"
                   ELSE IF fire = greatest THEN "fire" ELSE "hurricane"
            /\ ~float_lt(tenths(10), returned.value.risk_score)
            /\ ~float_lt(returned.value.risk_score, tenths(0))

Recommended == args.fn = "get_recommendations" /\ returned.returned

MonitorText == <<"Monitor weather conditions. No immediate action required.">>

PrepareText(event_type) ==
    <<"Elevated ", event_type,
      " risk. Prepare emergency supplies and evacuation plan.">>

EvacuateText(event_type) ==
    <<"HIGH ", event_type,
      " RISK! Consider immediate evacuation. Follow emergency protocols.">>

\* C14 as claimed: a score below 0.3 gives the monitor text, a score from 0.3
\* up to and including 0.6 the prepare text, and only a score strictly above
\* 0.6 the evacuate text.
C14_PrepareUpToSixTenths ==
    Recommended =>
        LET score == args.risk_score
        IN  /\ float_lt(score, tenths(3)) => returned.value = MonitorText
            /\ (~float_lt(score, tenths(3)) /\ ~float_lt(tenths(6), score))
                   => returned.value = PrepareText(args.event_type)
            /\ (returned.value = EvacuateText(args.event_type))
                   <=> float_lt(tenths(6), score)

\* C14: a score below 0.3 gives the monitor text, a score from 0.3 up to but
\* not including 0.6 the prepare text, and a score of 0.6 or more, exactly
\* 0.6 included, the evacuate text.
C14_EvacuateFromSixTenths ==
    Recommended =>
        LET score == args.risk_score
        IN  /\ float_lt(score, tenths(3)) => returned.value = MonitorText
            /\ (~float_lt(score, tenths(3)) /\ float_lt(score, tenths(6)))
                   => returned.value = PrepareText(args.event_type)
            /\ (returned.value = EvacuateText(args.event_type))
                   <=> ~float_lt(score, tenths(6))

\* C14 witness: a score of exactly 0.6 got the evacuate text.
C14_Witness ==
    /\ Recommended
    /\ args.risk_score = tenths(6)
    /\ returned.value = EvacuateText(args.event_type)

(***************************************************************************)
(* Claims about the alerts                                                 *)
(***************************************************************************)
Alerted == args.fn = "generate_alert" /\ returned.returned

\* C15: generate_alert gives CRITICAL/red for a risk of 0.8 or more,
\* SEVERE/orange from 0.6 up to 0.8, MODERATE/yellow from 0.4 up to 0.6 and
\* ADVISORY/blue below 0.4: the level and the colour depend on the score
\* alone and always form one of these four pairs.
C15_LevelAndColour ==
    Alerted =>
        LET risk == returned.value.risk_score
            pair == <<returned.value.alert_level, returned.value.color_code>>
        IN  /\ "risk_score" \in DOMAIN args.risk_prediction
                   => risk = args.risk_prediction.risk_score
            /\ ~float_lt(risk, tenths(8)) => pair = <<"CRITICAL", "red">>
            /\ (~float_lt(risk, tenths(6)) /\ float_lt(risk, tenths(8)))
                   => pair = <<"SEVERE", "orange">>
            /\ (~float_lt(risk, tenths(4)) /\ float_lt(risk, tenths(6)))
                   => pair = <<"MODERATE", "yellow">>
            /\ float_lt(risk, tenths(4)) => pair = <<"ADVISORY", "blue">>

\* C15 witness: a score of exactly 0.8 gave a CRITICAL, red alert.
C15_Witness ==
    /\ Alerted
    /\ returned.value.risk_score = tenths(8)
    /\ returned.value.alert_level = "CRITICAL"
    /\ returned.value.color_code = "red"

\* C16: an alert's expires_at is its own generation time, the instant of its
\* timestamp and of its alert_id, plus time_to_event_hours * 3600 seconds,
\* whatever the clock does while the alert is built.
C16_ExpiryFromTimestamp ==
    Alerted =>
        /\ returned.value.alert_id = <<"ALERT-", returned.value.timestamp>>
        /\ returned.value.expires_at =
               returned.value.timestamp
                   + get(args.risk_prediction, "time_to_event_hours", 24) * 3600

(***************************************************************************)
(* Claims about the shelter ranking                                        *)
(***************************************************************************)
Ranked == args.fn = "find_best_shelter" /\ returned.returned

\* C17: the capacity score is clamped to [0,1] for every shelter, whatever
\* its capacity and occupancy, so the combined_score of every entry that
\* find_best_shelter returns lies in [0,1].
C17_CombinedWithinUnit ==
    Ranked =>
        \A i \in 1..Len(returned.value) :
            returned.value[i].combined_score \in 0..100

\* the entry find_best_shelter builds for the shelter at position i
EntryOf(i) ==
    ranked_entry(args.user_lat, args.user_lon, args.shelters[i],
                 args.disaster_zones)

\* the ids of the shelters returned
ReturnedIds == {returned.value[i].shelter_id : i \in 1..Len(returned.value)}

C19_TiesByDistance ==
    Ranked =>
        \A i, j \in 1..Len(returned.value) :
            (/\ i < j
             /\ returned.value[i].combined_score
                    = returned.value[j].combined_score)
                => returned.value[i].distance_km <= returned.value[j].distance_km

\* C20: of two shelters at the same place and of the same capacity, the one
\* with the lower occupancy is ranked before the other, whatever their order
\* in the input and however small the difference.
C20_LessOccupiedFirst ==
    Ranked =>
        \A a, b \in 1..Len(args.shelters) :
            LET less == args.shelters[a]
                more == args.shelters[b]
            IN  (/\ {"capacity", "current_occupancy"} \subseteq DOMAIN less
                 /\ {"capacity", "current_occupancy"} \subseteq DOMAIN more
                 /\ less.latitude = more.latitude
                 /\ less.longitude = more.longitude
                 /\ less.capacity = more.capacity
                 /\ less.current_occupancy < more.current_occupancy)
                    => \A j \in 1..Len(returned.value) :
                           returned.value[j].shelter_id = b
                               => \E i \in 1..(j - 1) :
                                      returned.value[i].shelter_id = a

(***************************************************************************)
(* Claims about the route safety and the resource allocation               *)
(***************************************************************************)
Routed == args.fn = "calculate_route_safety" /\ returned.returned

\* the distances, in millimetres, from the start of the call to its zones
ZoneDistances ==
    {calculate_distance(args.start_lat, args.start_lon,
                        args.disaster_zones[i].latitude,
                        args.disaster_zones[i].longitude) :
        i \in 1..Len(args.disaster_zones)}

\* every zone is at least km kilometres from the start (so when there is
\* none)
NoZoneWithin(km) == \A d \in ZoneDistances : d >= km * 1000000

Prioritized == args.fn = "calculate_resource_priority" /\ returned.returned

\* 0.5 * min(estimatedAffected, 10000) / 10000 in millionths, rounded down,
\* for estimatedAffected = population * pi * radius^2 / 100: the population
\* counted in thousands, the radius in tenths of a km; 10000 is reached where
\* thousands * radius^2 * pi >= 100000
HalfAffected(thousands, radius) ==
    LET area == thousands * radius * radius
    IN  IF area >= 31831 THEN 500000
        ELSE (area * 31 + (area * 41593) \div 100000) \div 2

\* C22: for a zone of severity 0 to 10, radius >= 0 and population >= 0,
\* calculate_resource_priority returns
\* 0.5 * severity / 10 + 0.5 * min(estimatedAffected, 10000) / 10000, capped
\* at 1.0, a value within [0,1].
C22_PriorityWithinUnit ==
    Prioritized =>
        LET severity == IF "severity" \in DOMAIN args.disaster_event
                        THEN args.disaster_event.severity ELSE 5
            radius == IF "affected_radius_km" \in DOMAIN args.disaster_event
                      THEN args.disaster_event.affected_radius_km ELSE 50
            uncut == severity * 50000
                         + HalfAffected(args.population \div 1000, radius)
        IN  /\ returned.value = IF uncut > 1000000 THEN 1000000 ELSE uncut
            /\ severity \in 0..10 => returned.value \in 0..1000000

\* C22 witness: severity 10 with a saturated population gave exactly 1.0, and
\* so did severity 12, by the cap.
C22_Witness ==
    /\ Prioritized
    /\ "severity" \in DOMAIN args.disaster_event
    /\ args.disaster_event.severity = 12
    /\ args.population = 50000
    /\ returned.value = 1000000

Allocated == args.fn = "allocate_resources" /\ returned.returned

\* C23: allocate_resources returns exactly one allocation per input zone,
\* ordered by non-increasing priority, each labelled IMMEDIATE if its
\* priority is above 0.7, HIGH if above 0.5, otherwise NORMAL; an empty zone
\* list yields an empty list.
C23_OnePerZoneByPriority ==
    Allocated =>
        /\ "raised" \notin DOMAIN returned
        /\ Len(returned.value) = Len(args.disasters)
        /\ {returned.value[i].disaster_id : i \in DOMAIN returned.value}
               = DOMAIN args.disasters
        /\ \A i \in DOMAIN returned.value :
              /\ i > 1 => returned.value[i - 1].priority
                              >= returned.value[i].priority
              /\ returned.value[i].dispatch_urgency
                     = IF returned.value[i].priority > 700000
                       THEN "IMMEDIATE"
                       ELSE IF returned.value[i].priority > 500000
                            THEN "HIGH" ELSE "NORMAL"

\* C24: a zone without a severity is allocated with severity 5, for the
\* priority and for the quotas (10 medical teams, 500 water, 750 food, 7
\* vehicles), and the call does not raise.
C24_MissingSeverityIsFive ==
    Allocated =>
        /\ "raised" \notin DOMAIN returned
        /\ \A i \in DOMAIN returned.value :
              LET zone == args.disasters[returned.value[i].disaster_id]
              IN  "severity" \notin DOMAIN zone =>
                      /\ returned.value[i].severity = 5
                      /\ returned.value[i].needed_resources
                             = [medical_teams |-> 10, water_supplies |-> 500,
                                food_supplies |-> 750, rescue_vehicles |-> 7]

(***************************************************************************)
(* Claims about repeated calls, report ids and the simplified server       *)
(***************************************************************************)
CalledAgain == returned.returned /\ "again" \in DOMAIN returned

\* C25: an engine called twice with identical inputs gives identical output,
\* whatever the wall clock shows at the two calls.
C25_SameOutputTwice ==
    CalledAgain =>
        returned.again = IF "raised" \in DOMAIN returned
                         THEN [raised |-> returned.raised]
                         ELSE [value |-> returned.value]

\* C26: no two stored reports share a report_id, also when they were
\* submitted within the same second.
C26_ReportIdsUnique ==
    \A i \in DOMAIN citizen_reports :
       \A j \in DOMAIN citizen_reports :
          i # j => citizen_reports[i].report_id # citizen_reports[j].report_id

\* C27: in the simplified server risk_predictions_cache holds exactly one
\* prediction per observation of weather_cache, in order, both from the same
\* refresh, after any sequence of handler calls.
C27_PredictionsMatchWeather ==
    /\ Len(risk_predictions_cache) = Len(weather_cache)
    /\ \A i \in DOMAIN weather_cache :
          /\ risk_predictions_cache[i].location = weather_cache[i].location
          /\ risk_predictions_cache[i].timestamp = weather_cache[i].timestamp

\* the capacity score of the shelter behind the i-th returned entry
ScoreOf(i) == capacity_score(args.shelters[returned.value[i].shelter_id])

\* C28: in one call of find_best_shelter every shelter gets the same
\* safety_score, and the returned shelters stand in the order of their
\* capacity scores alone: none comes before a shelter of a greater capacity
\* score.
C28_OrderByCapacityAlone ==
    Ranked =>
        \A i, j \in 1..Len(returned.value) :
            /\ returned.value[i].safety_score = returned.value[j].safety_score
            /\ i < j => ScoreOf(i).num * ScoreOf(j).den
                            >= ScoreOf(j).num * ScoreOf(i).den

(***************************************************************************)
(* Claims about the endpoints                                              *)
(***************************************************************************)
\* the positions of the cache that hold a score above 0.5
AboveHalf ==
    {i \in DOMAIN risk_predictions_cache :
        /\ "risk_score" \in DOMAIN risk_predictions_cache[i]
        /\ float_lt(tenths(5), risk_predictions_cache[i].risk_score)}

\* C29: the allocation endpoint answers one allocation per prediction of a
\* risk_score above 0.5, each of priority >= 0.75 and dispatch_urgency
\* IMMEDIATE, whatever risk_predictions_cache holds.
C29_AlwaysImmediate ==
    response.kind # "none" =>
        /\ response.kind = "allocation"
        /\ response.count = Cardinality(AboveHalf)
        /\ \A i \in DOMAIN response.data :
              /\ response.data[i].dispatch_urgency = "IMMEDIATE"
              /\ response.data[i].priority >= 750000
              /\ response.data[i].severity \in 5..10

\* C29 witness: a score just above 0.5 and a score of 1.0 were allocated,
\* with the priorities 1.0 and 0.75.
C29_Witness ==
    /\ response.kind = "allocation"
    /\ response.count = 2
    /\ response.data[1].priority = 1000000
    /\ response.data[2].priority = 750000
    /\ float_lt(risk_predictions_cache[1].risk_score, tenths(6))

Answered == args.fn = "get_evacuation_route" /\ returned.returned

\* C30: the evacuation endpoint answers 400 'Latitude and longitude
\* required' only to a request without a latitude or without a longitude; a
\* request with both, 0 included, gets the ranked shelters.
C30_RefusesOnlyAbsent ==
    Answered =>
        IF {"latitude", "longitude"} \subseteq DOMAIN args.data
        THEN /\ returned.code = 200
             /\ Len(returned.value.recommended_shelters) = 3
        ELSE /\ returned.code = 400
             /\ returned.value.message = "Latitude and longitude required"

====
